---- MODULE Spec2Model ----
(***************************************************************************)
(* Model of the lowest order RWG space (bempp/api/space/rwg0_space.py) and *)
(* of the sparse operator assembler (bempp/core/sparse_assembler.py).      *)
(*                                                                         *)
(* numpy arrays are functions over 0..n-1; a two dimensional array a[e, k] *)
(* is a function of functions a[e][k].                                     *)
(***************************************************************************)
EXTENDS Integers, Sequences, FiniteSets, TLC

VARIABLES
    topo,     \* the mesh both grid instances were loaded from
    space,    \* role -> NoSpace or the _SpaceData of the constructed space
    ctor,     \* role -> outcome of Rwg0FunctionSpace.__init__
    locals,   \* role -> local variables of __init__ when it left the loop
    pc,       \* position of SparseAssembler.assemble
    kernel,   \* the operator descriptor (which integral kernel is evaluated)
    held,     \* device buffers that are still referenced
    log,      \* device operations attempted so far, in order
    ret,      \* (rows, cols, data) returned by assemble_sparse, or NoValue
    matrix,   \* the matrix returned by assemble, or NoValue
    error     \* the exception the assemble call raised, or "none"

vars == <<topo, space, ctor, locals, pc, kernel, held, log, ret, matrix, error>>

-----------------------------------------------------------------------------
(* Bounds of the model *)

\* strips of 1..MaxStrip triangles are explored
MaxStrip == 4
\* closed bipyramids over a 2..MaxBipyramid-gon are explored
MaxBipyramid == 2
\* operator descriptors 1..MaxKernel are explored
MaxKernel == 2

-----------------------------------------------------------------------------
(* Program constants *)

\* number of local shape functions of an RWG element
NumberOfShapeFunctions == 3
\* the "unallocated" value of edge_dofs and dofmap
Unallocated == -1
\* what a negative int32 becomes when stored in the uint32 local2global_map:
\* x + 2^32, a value above every DOF id.  TLC integers are 32 bit
\* wide, so the modulus is represented by 2^31 - 1.
Uint32Modulus == 2147483647

Roles == {"domain", "dual_to_range"}
NoSpace == [built |-> FALSE]
NoValue == [set |-> FALSE]
NoLocals == [left |-> FALSE]

-----------------------------------------------------------------------------
(* numpy helpers *)

ArrLen(a) == Cardinality(DOMAIN a)

Arange(n) == [p \in 0..(n - 1) |-> p]

\* numpy.repeat(a, r): every entry r times in a row
Repeat(a, r) == [p \in 0..(ArrLen(a) * r - 1) |-> a[p \div r]]

\* numpy.tile(a, reps): the whole array reps times
Tile(a, reps) == [p \in 0..(ArrLen(a) * reps - 1) |-> a[p % ArrLen(a)]]

\* numpy.flatnonzero(mask): the indices of the true entries, ascending
FlatNonzero(mask) ==
    LET idx == {k \in DOMAIN mask : mask[k]}
    IN  [p \in 0..(Cardinality(idx) - 1) |->
            CHOOSE k \in idx : Cardinality({m \in idx : m < k}) = p]

\* a.ravel() of an (n, 3) array, C order
Ravel(a) ==
    [p \in 0..(ArrLen(a) * NumberOfShapeFunctions - 1) |->
        a[p \div NumberOfShapeFunctions][p % NumberOfShapeFunctions]]

\* a[idx] for an index array idx
Take(a, idx) == [p \in DOMAIN idx |-> a[idx[p]]]

\* storing an int32 in a uint32 array
AsUint32(x) == IF x >= 0 THEN x ELSE x + Uint32Modulus

-----------------------------------------------------------------------------
(* Grids.  element_edges[local_index][element_index] is the edge of a slot *)

\* n triangles in a row, triangle k sharing one edge with triangle k + 1.
\* Edges 0..n-2 are the shared ones, the others lie on the boundary.
Strip(n) ==
    [number_of_elements |-> n,
     number_of_edges |-> 2 * n + 1,
     element_edges |->
        [li \in 0..2 |-> [k \in 0..(n - 1) |->
            CASE li = 0 -> (n - 1) + k
              [] li = 1 -> IF k < n - 1 THEN k ELSE 2 * n - 1
              [] li = 2 -> IF k > 0 THEN k - 1 ELSE 2 * n]]]

\* the closed surface of a bipyramid over an m-gon: 2m triangles, 3m edges,
\* every edge shared by exactly two triangles
Bipyramid(m) ==
    [number_of_elements |-> 2 * m,
     number_of_edges |-> 3 * m,
     element_edges |->
        [li \in 0..2 |-> [k \in 0..(2 * m - 1) |->
            LET top == k < m
                kk == k % m
                base == IF top THEN 0 ELSE m
            IN  CASE li = 0 -> base + kk
                  [] li = 1 -> base + ((kk + 1) % m)
                  [] li = 2 -> 2 * m + kk]]]

Grids == {Strip(n) : n \in 1..MaxStrip} \cup {Bipyramid(m) : m \in 2..MaxBipyramid}

\* grid.edge_neighbors[edge_index]: the elements adjacent to the edge, ascending
EdgeNeighbors(g, edge_index) ==
    FlatNonzero([k \in 0..(g.number_of_elements - 1) |->
        \E li \in 0..2 : g.element_edges[li][k] = edge_index])

\* the grid object: an instance (id) of a mesh
GridInstance(id, g) == [id |-> id, data |-> g]

Min(a) == CHOOSE x \in {a[p] : p \in DOMAIN a} : \A q \in DOMAIN a : x <= a[q]

-----------------------------------------------------------------------------
(* Rwg0FunctionSpace.__init__ *)

OtherNeighbor_IgnoreSupport(edge_neighbors, element_index, support) ==
    IF ArrLen(edge_neighbors) = 1
    THEN -1
    ELSE IF element_index = edge_neighbors[0]
         THEN edge_neighbors[1]
         ELSE edge_neighbors[0]

\* the neighbor across the edge if it is in the support, else -1
OtherNeighbor(edge_neighbors, element_index, support) ==
    IF ArrLen(edge_neighbors) = 1
    THEN -1
    ELSE LET other == IF element_index = edge_neighbors[0]
                      THEN edge_neighbors[1]
                      ELSE edge_neighbors[0]
         IN  IF ~support[other] THEN -1 ELSE other

InteriorMultiplier_Always1(element_index, edge_neighbors) == 1

\* 1 or -1 depending on element index
InteriorMultiplier(element_index, edge_neighbors) ==
    IF element_index = Min(edge_neighbors) THEN 1 ELSE -1

EdgeNeedsDof_Always(edge_dofs, edge_index) == TRUE

\* the edge has no global dof yet
EdgeNeedsDof(edge_dofs, edge_index) == edge_dofs[edge_index] = Unallocated

\* one pass of the inner loop (for local_index in range(3))
SlotStep(g, support, include_boundary_dofs, element_index, local_index, st) ==
    LET edge_index == g.element_edges[local_index][element_index]
        edge_neighbors == EdgeNeighbors(g, edge_index)
        other == OtherNeighbor(edge_neighbors, element_index, support)
        alloc == [id |-> st.count, edge |-> edge_index,
                  element |-> element_index, slot |-> local_index]
    IN  IF other = -1
        THEN IF ~include_boundary_dofs
             THEN [st EXCEPT !.local_multipliers[element_index][local_index] = 0]
             ELSE [st EXCEPT !.local_multipliers[element_index][local_index] = 1,
                             !.dofmap[local_index] = st.count,
                             !.count = st.count + 1,
                             !.allocs = Append(st.allocs, alloc)]
        ELSE LET mult == InteriorMultiplier(element_index, edge_neighbors)
                 fresh == EdgeNeedsDof(st.edge_dofs, edge_index)
                 dofs == IF fresh
                         THEN [st.edge_dofs EXCEPT ![edge_index] = st.count]
                         ELSE st.edge_dofs
             IN  [st EXCEPT !.local_multipliers[element_index][local_index] = mult,
                            !.edge_dofs = dofs,
                            !.count = IF fresh THEN st.count + 1 ELSE st.count,
                            !.allocs = IF fresh THEN Append(st.allocs, alloc)
                                       ELSE st.allocs,
                            !.dofmap[local_index] = dofs[edge_index]]

\* _np.all(dofmap == -1)
NoDofAssigned(dofmap) == \A k \in DOMAIN dofmap : dofmap[k] = Unallocated

FirstNonzero_Last(mults) ==
    CHOOSE k \in DOMAIN mults :
        mults[k] # 0 /\ \A m \in DOMAIN mults : mults[m] # 0 => m <= k

\* _np.min(_np.flatnonzero(local_multipliers[element_index] != 0))
FirstNonzero(mults) ==
    Min(FlatNonzero([k \in DOMAIN mults |-> mults[k] # 0]))

\* dofmap[arg_zeros] = dofmap[first_nonzero]
FillZeros(dofmap, mults) ==
    LET first_nonzero == FirstNonzero(mults)
    IN  [k \in DOMAIN dofmap |->
            IF mults[k] = 0 THEN dofmap[first_nonzero] ELSE dofmap[k]]

\* the end of one pass of the outer loop: delete the element or store its dofmap
FinishElement(element_index, st) ==
    IF NoDofAssigned(st.dofmap)
    THEN [st EXCEPT !.delete_from_support = Append(st.delete_from_support, element_index),
                    !.local_multipliers[element_index] = [k \in 0..2 |-> 0],
                    !.local2global_map[element_index] = [k \in 0..2 |-> 0]]
    ELSE LET filled == FillZeros(st.dofmap, st.local_multipliers[element_index])
         IN  [st EXCEPT !.dofmap = filled,
                        !.local2global_map[element_index] =
                            [k \in 0..2 |-> AsUint32(filled[k])]]

\* one pass of the outer loop (for element_index in elements_in_support)
ElementStep(g, support, include_boundary_dofs, element_index, st) ==
    LET s0 == [st EXCEPT !.dofmap = [k \in 0..2 |-> Unallocated]]
        s1 == SlotStep(g, support, include_boundary_dofs, element_index, 0, s0)
        s2 == SlotStep(g, support, include_boundary_dofs, element_index, 1, s1)
        s3 == SlotStep(g, support, include_boundary_dofs, element_index, 2, s2)
    IN  FinishElement(element_index, s3)

\* the local variables before the loop
InitialLocals(g) ==
    [local2global_map |-> [e \in 0..(g.number_of_elements - 1) |-> [k \in 0..2 |-> 0]],
     local_multipliers |-> [e \in 0..(g.number_of_elements - 1) |-> [k \in 0..2 |-> 0]],
     edge_dofs |-> [e \in 0..(g.number_of_edges - 1) |-> Unallocated],
     delete_from_support |-> << >>,
     dofmap |-> [k \in 0..2 |-> Unallocated],
     count |-> 0,
     allocs |-> << >>]

RECURSIVE ElementLoop(_, _, _, _, _, _)
\* the outer loop from position p of elements_in_support on
ElementLoop(g, support, include_boundary_dofs, elements_in_support, p, st) ==
    IF p >= ArrLen(elements_in_support)
    THEN st
    ELSE ElementLoop(g, support, include_boundary_dofs, elements_in_support, p + 1,
            ElementStep(g, support, include_boundary_dofs, elements_in_support[p], st))

ReducedSupport_Keep(support, delete_from_support) == support

\* for index in delete_from_support: support[index] = False
ReducedSupport(support, delete_from_support) ==
    [e \in DOMAIN support |->
        support[e] /\ ~\E p \in 1..Len(delete_from_support) : delete_from_support[p] = e]

\* _np.count_nonzero(support), after the deletions
SupportSize(support) == Cardinality({e \in DOMAIN support : support[e]})

SupportIsEmpty_Never(support_size) == FALSE

\* if support_size == 0: raise ValueError
SupportIsEmpty(support_size) == support_size = 0

\* the local variables when the constructor reaches the support_size test
RunInit(grid, support, include_boundary_dofs) ==
    LET st == ElementLoop(grid.data, support, include_boundary_dofs,
                          FlatNonzero(support), 0, InitialLocals(grid.data))
        reduced == ReducedSupport(support, st.delete_from_support)
    IN  [left |-> TRUE,
         grid |-> grid,
         initial_support |-> support,
         include_boundary_dofs |-> include_boundary_dofs,
         support |-> reduced,
         support_size |-> SupportSize(reduced),
         local2global_map |-> st.local2global_map,
         local_multipliers |-> st.local_multipliers,
         edge_dofs |-> st.edge_dofs,
         global_dof_count |-> st.count,
         allocs |-> st.allocs]

\* _SpaceData and the localised space built from the locals
SpaceData(l) ==
    [built |-> TRUE,
     grid |-> l.grid,
     global_dof_count |-> l.global_dof_count,
     local2global |-> l.local2global_map,
     local_multipliers |-> l.local_multipliers,
     support |-> l.support,
     number_of_shape_functions |-> NumberOfShapeFunctions]

\* Rwg0FunctionSpace(grid, support_elements, include_boundary_dofs)
Construct(role) ==
    /\ ctor[role] = "unbuilt"
    /\ pc = "idle"
    /\ \E id \in (IF role = "domain" THEN {1} ELSE {1, 2}),
          support \in [0..(topo.number_of_elements - 1) -> BOOLEAN],
          include_boundary_dofs \in BOOLEAN :
            LET l == RunInit(GridInstance(id, topo), support, include_boundary_dofs)
            IN  /\ locals' = [locals EXCEPT ![role] = l]
                /\ IF SupportIsEmpty(l.support_size)
                   THEN /\ ctor' = [ctor EXCEPT ![role] = "ValueError"]
                        /\ UNCHANGED space
                   ELSE /\ ctor' = [ctor EXCEPT ![role] = "constructed"]
                        /\ space' = [space EXCEPT ![role] = SpaceData(l)]
    /\ UNCHANGED <<topo, pc, kernel, held, log, ret, matrix, error>>

-----------------------------------------------------------------------------
(* The device side of an assembly call *)

\* the device buffers _prepare_buffers creates, in the order it creates them
BufferOrder ==
    <<"quad_points", "quad_weights", "grid", "elements", "result",
      "test_normal_signs", "trial_normal_signs">>

\* the buffers the call itself creates; the grid's buffer belongs to the grid
OwnedBuffers == {BufferOrder[k] : k \in 1..Len(BufferOrder)} \ {"grid"}

\* the local contribution of element el to local test slot i and trial slot j
\* for operator descriptor k
RawKernel(k, el, i, j) ==
    IF k = 1
    THEN 1 + el * NumberOfShapeFunctions * NumberOfShapeFunctions
           + i * NumberOfShapeFunctions + j
    ELSE (i - j) * (el + 2) + (IF i = j THEN el + 1 ELSE 0) - (k - 2)

\* the result buffer after the kernels ran: one row-major dense block per
\* position of the element list
KernelOutput(k, elements, ntest, ntrial) ==
    [p \in 0..(ArrLen(elements) * ntest * ntrial - 1) |->
        RawKernel(k, elements[p \div (ntest * ntrial)],
                  (p % (ntest * ntrial)) \div ntrial, p % ntrial)]

-----------------------------------------------------------------------------
(* assemble_sparse *)

GridsDiffer_ByData(domain, dual_to_range) == domain.grid.data # dual_to_range.grid.data

\* domain.grid != dual_to_range.grid
GridsDiffer(domain, dual_to_range) == domain.grid # dual_to_range.grid

\* _np.flatnonzero(domain.support * dual_to_range.support)
ActiveElements(domain, dual_to_range) ==
    FlatNonzero([e \in DOMAIN domain.support |->
        domain.support[e] /\ dual_to_range.support[e]])

ElementOffsets_ByPosition(elements, nshape) ==
    [p \in DOMAIN elements |-> p * nshape]

\* elements * number_of_test_shape_functions
ElementOffsets(elements, nshape) ==
    [p \in DOMAIN elements |-> elements[p] * nshape]

\* a + b for arrays of one length
ArrAdd(a, b) == [p \in DOMAIN a |-> a[p] + b[p]]

I_ind_Tiled(elements, ntest, ntrial) ==
    ArrAdd(Tile(Tile(Arange(ntest), ntrial), ArrLen(elements)),
           Repeat(ElementOffsets(elements, ntest), ntest * ntrial))

\* i_ind
I_ind(elements, ntest, ntrial) ==
    ArrAdd(Tile(Repeat(Arange(ntest), ntrial), ArrLen(elements)),
           Repeat(ElementOffsets(elements, ntest), ntest * ntrial))

\* j_ind
J_ind(elements, ntest, ntrial) ==
    ArrAdd(Tile(Tile(Arange(ntrial), ntest), ArrLen(elements)),
           Repeat(ElementOffsets(elements, ntrial), ntest * ntrial))

\* SparseAssembler.assemble is called with an operator descriptor
AssembleCall ==
    /\ pc = "idle"
    /\ \A r \in Roles : ctor[r] = "constructed"
    /\ \E k \in 1..MaxKernel : kernel' = k
    /\ pc' = "check_grid"
    /\ UNCHANGED <<topo, space, ctor, locals, held, log, ret, matrix, error>>

\* if domain.grid != dual_to_range.grid: raise ValueError
CheckGrid ==
    /\ pc = "check_grid"
    /\ IF GridsDiffer(space["domain"], space["dual_to_range"])
       THEN pc' = "raised" /\ error' = "ValueError"
       ELSE pc' = "prepare" /\ UNCHANGED error
    /\ UNCHANGED <<topo, space, ctor, locals, kernel, held, log, ret, matrix>>

\* _prepare_buffers creates its next device buffer
AllocBuffer ==
    /\ pc = "prepare"
    /\ LET name == BufferOrder[Len(log) + 1]
       IN  /\ log' = Append(log, name)
           /\ held' = held \cup ({name} \cap OwnedBuffers)
           /\ pc' = IF Len(log) + 1 = Len(BufferOrder) THEN "compile" ELSE "prepare"
    /\ UNCHANGED <<topo, space, ctor, locals, kernel, ret, matrix, error>>

\* the main and the remainder kernel are built
CompileKernels ==
    /\ pc = "compile"
    /\ log' = Append(log, "compile")
    /\ pc' = "dispatch"
    /\ UNCHANGED <<topo, space, ctor, locals, kernel, held, ret, matrix, error>>

\* kernel_helpers.run_chunked_kernel
RunKernel ==
    /\ pc = "dispatch"
    /\ log' = Append(log, "dispatch")
    /\ pc' = "retrieve"
    /\ UNCHANGED <<topo, space, ctor, locals, kernel, held, ret, matrix, error>>

\* a buffer allocation, the kernel compilation or the kernel execution raises.
\* Nothing in assemble_sparse or _prepare_buffers catches the exception or
\* releases a buffer: the buffers created so far stay referenced by the
\* frames the exception carries.
DeviceFails ==
    /\ pc \in {"prepare", "compile", "dispatch"}
    /\ log' = Append(log, "failed")
    /\ pc' = "raised"
    /\ error' = "DeviceError"
    /\ UNCHANGED <<topo, space, ctor, locals, kernel, held, ret, matrix>>

\* the result is copied to the host, the indices are generated, and
\* assemble_sparse returns: its local list of buffers goes out of scope
ReturnFromAssembleSparse ==
    /\ pc = "retrieve"
    /\ LET domain == space["domain"]
           dual_to_range == space["dual_to_range"]
           ntest == dual_to_range.number_of_shape_functions
           ntrial == domain.number_of_shape_functions
           elements == ActiveElements(domain, dual_to_range)
       IN  ret' = [set |-> TRUE,
                   elements |-> elements,
                   rows |-> I_ind(elements, ntest, ntrial),
                   cols |-> J_ind(elements, ntest, ntrial),
                   data |-> KernelOutput(kernel, elements, ntest, ntrial)]
    /\ held' = {}
    /\ pc' = "scatter"
    /\ UNCHANGED <<topo, space, ctor, locals, kernel, log, matrix, error>>

-----------------------------------------------------------------------------
(* SparseAssembler.assemble *)

RECURSIVE CooSum(_, _, _, _, _, _)
\* coo_matrix((data, (rows, cols))).tocsr(): duplicate entries are summed
CooSum(data, rows, cols, r, c, p) ==
    IF p >= ArrLen(data)
    THEN 0
    ELSE (IF rows[p] = r /\ cols[p] = c THEN data[p] ELSE 0)
         + CooSum(data, rows, cols, r, c, p + 1)

\* data * trial_multipliers[cols] * test_multipliers[rows]
NewData(data, trial_multipliers, test_multipliers, rows, cols) ==
    [p \in DOMAIN data |-> data[p] * trial_multipliers[cols[p]] * test_multipliers[rows[p]]]

\* the rest of assemble once assemble_sparse has returned
Scatter ==
    /\ pc = "scatter"
    /\ LET domain == space["domain"]
           dual_to_range == space["dual_to_range"]
           trial_local2global == Ravel(domain.local2global)
           test_local2global == Ravel(dual_to_range.local2global)
           trial_multipliers == Ravel(domain.local_multipliers)
           test_multipliers == Ravel(dual_to_range.local_multipliers)
           new_rows == Take(test_local2global, ret.rows)
           new_cols == Take(trial_local2global, ret.cols)
           new_data == NewData(ret.data, trial_multipliers, test_multipliers,
                               ret.rows, ret.cols)
           nrows == dual_to_range.global_dof_count
           ncols == domain.global_dof_count
       IN  matrix' = [set |-> TRUE,
                      nrows |-> nrows,
                      ncols |-> ncols,
                      m |-> [r \in 0..(nrows - 1) |-> [c \in 0..(ncols - 1) |->
                                CooSum(new_data, new_rows, new_cols, r, c, 0)]]]
    /\ pc' = "returned"
    /\ UNCHANGED <<topo, space, ctor, locals, kernel, held, log, ret, error>>

-----------------------------------------------------------------------------

Init ==
    /\ topo \in Grids
    /\ space = [r \in Roles |-> NoSpace]
    /\ ctor = [r \in Roles |-> "unbuilt"]
    /\ locals = [r \in Roles |-> NoLocals]
    /\ pc = "idle"
    /\ kernel = 0
    /\ held = {}
    /\ log = << >>
    /\ ret = NoValue
    /\ matrix = NoValue
    /\ error = "none"

Next ==
    \/ Construct("domain")
    \/ Construct("dual_to_range")
    \/ AssembleCall
    \/ CheckGrid
    \/ AllocBuffer
    \/ CompileKernels
    \/ RunKernel
    \/ DeviceFails
    \/ ReturnFromAssembleSparse
    \/ Scatter

Spec == Init /\ [][Next]_vars

\* the construction of the two spaces alone
NextSpaces ==
    \/ Construct("domain")
    \/ Construct("dual_to_range")

SpecSpaces == Init /\ [][NextSpaces]_vars

-----------------------------------------------------------------------------
(* Vocabulary of the properties *)

Elements == 0..(topo.number_of_elements - 1)
Edges == 0..(topo.number_of_edges - 1)
Slots == 0..(NumberOfShapeFunctions - 1)

\* the elements that have the edge as one of their local edges
Adjacent(edge) == {e \in Elements : \E k \in Slots : topo.element_edges[k][e] = edge}

\* the element across local edge k of element e, if there is one
Across(e, k) == Adjacent(topo.element_edges[k][e]) \ {e}

\* every edge of the mesh has exactly two adjacent elements
ClosedMesh == \A edge \in Edges : Cardinality(Adjacent(edge)) = 2

FullSupport(l) == \A e \in Elements : l.initial_support[e]

\* local edge k of element e has no neighbor in the initial support
BoundarySlot(l, e, k) == \A o \in Across(e, k) : ~l.initial_support[o]

\* the edges whose two adjacent elements are both in the initial support
InteriorEdges(l) ==
    {edge \in Edges : /\ Cardinality(Adjacent(edge)) = 2
                      /\ \A e \in Adjacent(edge) : l.initial_support[e]}

BoundarySlots(l) ==
    {t \in Elements \X Slots : l.initial_support[t[1]] /\ BoundarySlot(l, t[1], t[2])}

TwoTrianglesAllSelected(l) == topo = Strip(2) /\ FullSupport(l)

-----------------------------------------------------------------------------
(* C1 *)

\* C1: in a constructed space, for every edge whose two adjacent elements
\* are both in the final support, the slot of the edge in the element with the
\* smaller index has multiplier +1, the slot in the other element has
\* multiplier -1, and both slots hold the same global DOF id.
C1_SharedEdgeSigns ==
    \A r \in Roles : space[r].built =>
        \A a \in Elements, b \in Elements, ka \in Slots, kb \in Slots :
            ( /\ a < b
              /\ space[r].support[a] /\ space[r].support[b]
              /\ topo.element_edges[ka][a] = topo.element_edges[kb][b] )
            => /\ space[r].local_multipliers[a][ka] = 1
               /\ space[r].local_multipliers[b][kb] = -1
               /\ space[r].local2global[a][ka] = space[r].local2global[b][kb]

C1_Witness ==
    \E r \in Roles : space[r].built /\
        \E a \in Elements, b \in Elements, ka \in Slots, kb \in Slots :
            /\ a < b
            /\ space[r].support[a] /\ space[r].support[b]
            /\ topo.element_edges[ka][a] = topo.element_edges[kb][b]
            /\ \E c \in Elements : ~space[r].support[c]

-----------------------------------------------------------------------------
(* C3 *)

AllZero(mults) == \A k \in Slots : mults[k] = 0

\* C3: in a constructed space every element of the support has a nonzero
\* local multiplier, every element of the initial support whose three
\* multipliers are zero is no longer in the support, and the support is a
\* subset of the initial one.
C3_SupportHasActiveDofs ==
    \A r \in Roles : space[r].built =>
        \A e \in Elements :
            /\ space[r].support[e] => ~AllZero(space[r].local_multipliers[e])
            /\ (locals[r].initial_support[e] /\ AllZero(space[r].local_multipliers[e]))
                    => ~space[r].support[e]
            /\ space[r].support[e] => locals[r].initial_support[e]

C3_Witness ==
    \E r \in Roles : space[r].built /\
        \E e \in Elements :
            /\ locals[r].initial_support[e]
            /\ AllZero(space[r].local_multipliers[e])
            /\ ~space[r].support[e]

-----------------------------------------------------------------------------
(* C4 *)

\* C4: the global DOF count is the number of allocations of the traversal:
\* one per edge with both adjacent elements in the initial support, made
\* once, by the adjacent element visited first, plus, with
\* include_boundary_dofs, one per slot of a support element without neighbor
\* in the support; the ids handed out are 0..count-1 in order.  Two triangles
\* sharing an edge give 1 without and 5 with boundary dofs.
C4_CountIsAllocations ==
    \A r \in Roles : locals[r].left =>
        LET l == locals[r]
            ids == {l.allocs[p].id : p \in 1..Len(l.allocs)}
        IN  /\ l.global_dof_count = Len(l.allocs)
            /\ \A p \in 1..Len(l.allocs) : l.allocs[p].id = p - 1
            /\ l.global_dof_count =
                  Cardinality(InteriorEdges(l))
                  + (IF l.include_boundary_dofs THEN Cardinality(BoundarySlots(l)) ELSE 0)
            /\ \A edge \in InteriorEdges(l) :
                  \E p \in 1..Len(l.allocs) :
                      /\ l.allocs[p].edge = edge
                      /\ \A e \in Adjacent(edge) : l.allocs[p].element <= e
                      /\ \A q \in 1..Len(l.allocs) : l.allocs[q].edge = edge => q = p
            /\ TwoTrianglesAllSelected(l) =>
                  l.global_dof_count = (IF l.include_boundary_dofs THEN 5 ELSE 1)

C4_Witness ==
    \E r \in Roles :
        /\ locals[r].left
        /\ TwoTrianglesAllSelected(locals[r])
        /\ locals[r].include_boundary_dofs
        /\ locals[r].global_dof_count = 5

-----------------------------------------------------------------------------
(* C5 *)

\* C5 as stated: on a closed mesh, with include_boundary_dofs false, the
\* global DOF count of a constructed space is the number of mesh edges,
\* whatever the support.
C5_Original ==
    \A r \in Roles :
        (space[r].built /\ ClosedMesh /\ ~locals[r].include_boundary_dofs)
            => space[r].global_dof_count = topo.number_of_edges

\* C5 amended: on a closed mesh, with include_boundary_dofs false and every
\* element of the mesh in the support, the global DOF count is the number of
\* mesh edges and every edge is allocated exactly once.
C5_ClosedMeshFullSupport ==
    \A r \in Roles :
        (locals[r].left /\ ClosedMesh /\ ~locals[r].include_boundary_dofs
            /\ FullSupport(locals[r]))
        => /\ ctor[r] = "constructed"
           /\ space[r].global_dof_count = topo.number_of_edges
           /\ \A edge \in Edges :
                Cardinality({p \in 1..Len(locals[r].allocs) :
                                locals[r].allocs[p].edge = edge}) = 1

C5_Witness ==
    \E r \in Roles :
        /\ space[r].built /\ ClosedMesh /\ ~locals[r].include_boundary_dofs
        /\ FullSupport(locals[r])

-----------------------------------------------------------------------------
(* C6 *)

IsolatedTriangle(l) == topo = Strip(1) /\ FullSupport(l) /\ ~l.include_boundary_dofs

\* C6: the constructor raises the empty support error exactly when no
\* element is left in the support after the removals, and then no space is
\* produced; an isolated triangle without boundary dofs gets three zero
\* multipliers, is dropped and raises; no error is raised when an element
\* keeps a nonzero multiplier.
C6_EmptySupportError ==
    \A r \in Roles : locals[r].left =>
        LET l == locals[r]
        IN  /\ (ctor[r] = "ValueError") <=> (\A e \in Elements : ~l.support[e])
            /\ ctor[r] = "ValueError" => space[r] = NoSpace
            /\ ctor[r] # "ValueError" => ctor[r] = "constructed" /\ space[r].built
            /\ (\E e \in Elements : ~AllZero(l.local_multipliers[e]))
                    => ctor[r] = "constructed"
            /\ IsolatedTriangle(l) =>
                    /\ AllZero(l.local_multipliers[0])
                    /\ ~l.support[0]
                    /\ ctor[r] = "ValueError"

C6_Witness ==
    \E r \in Roles :
        /\ locals[r].left
        /\ IsolatedTriangle(locals[r])
        /\ ctor[r] = "ValueError"

-----------------------------------------------------------------------------
(* C9 *)

\* the lowest-indexed slot of the element with a nonzero multiplier, if any
LowestNonzero(mults) ==
    {k \in Slots : mults[k] # 0 /\ \A m \in Slots : mults[m] # 0 => k <= m}

ValidId(sp, id) == id # AsUint32(Unallocated) /\ id >= 0 /\ id < sp.global_dof_count

ZeroSlotsAliased(sp, e) ==
    \A k \in Slots : sp.local_multipliers[e][k] = 0 =>
        \E n \in LowestNonzero(sp.local_multipliers[e]) :
            sp.local2global[e][k] = sp.local2global[e][n]

\* C9 as stated: every slot of every element holds a valid id, and every
\* zero-multiplier slot holds the id of the lowest nonzero slot of its element.
C9_Original ==
    \A r \in Roles : space[r].built =>
        \A e \in Elements :
            /\ \A k \in Slots : ValidId(space[r], space[r].local2global[e][k])
            /\ ZeroSlotsAliased(space[r], e)

\* C9 amended: every slot of every element holds a valid id, and in every
\* element of the final support every zero-multiplier slot holds the id of
\* the lowest nonzero slot of that element.
C9_ValidIds ==
    \A r \in Roles : space[r].built =>
        \A e \in Elements :
            /\ \A k \in Slots : ValidId(space[r], space[r].local2global[e][k])
            /\ space[r].support[e] => ZeroSlotsAliased(space[r], e)

C9_Witness ==
    \E r \in Roles : space[r].built /\
        \E e \in Elements, k \in Slots, n \in Slots, m \in Slots :
            /\ space[r].support[e]
            /\ space[r].local_multipliers[e][k] = 0
            /\ n < m
            /\ space[r].local_multipliers[e][n] # 0
            /\ space[r].local_multipliers[e][m] # 0
            /\ space[r].local2global[e][n] # space[r].local2global[e][m]

-----------------------------------------------------------------------------
(* C7, C8 *)

\* C7: when the two spaces are built on different grid instances the
\* assembly raises the precondition error before any device buffer is
\* created, any kernel is built or run, and any result is produced.
C7_GridMismatchIsFatal ==
    (/\ pc \notin {"idle", "check_grid"}
     /\ space["domain"].grid.id # space["dual_to_range"].grid.id)
    => /\ pc = "raised"
       /\ error = "ValueError"
       /\ log = << >>
       /\ held = {}
       /\ ret = NoValue
       /\ matrix = NoValue

C7_Witness ==
    /\ pc = "raised"
    /\ error = "ValueError"
    /\ space["domain"].grid.id # space["dual_to_range"].grid.id

\* C8: when the assembly call has returned or raised, no device buffer the
\* call created is still held.
C8_BuffersReleased ==
    pc \in {"returned", "raised"} => held = {}

-----------------------------------------------------------------------------
(* C10 *)

BlockSize == NumberOfShapeFunctions * NumberOfShapeFunctions

\* C10 as stated: the indices generated for position e of the element list
\* are e * test_slot_count + i and e * trial_slot_count + j.
C10_Original ==
    ret.set =>
        \A e \in DOMAIN ret.elements, i \in Slots, j \in Slots :
            LET p == e * BlockSize + i * NumberOfShapeFunctions + j
            IN  /\ ret.rows[p] = e * NumberOfShapeFunctions + i
                /\ ret.cols[p] = e * NumberOfShapeFunctions + j

\* C10 amended: the indices generated for position e of the element list
\* are elements[e] * test_slot_count + i and elements[e] * trial_slot_count
\* + j, in row-major order per element, paired with entry
\* e * test_slot_count * trial_slot_count + i * trial_slot_count + j of the
\* result buffer.
C10_IndexReconstruction ==
    ret.set =>
        /\ DOMAIN ret.rows = 0..(ArrLen(ret.elements) * BlockSize - 1)
        /\ DOMAIN ret.cols = DOMAIN ret.rows
        /\ DOMAIN ret.data = DOMAIN ret.rows
        /\ \A e \in DOMAIN ret.elements, i \in Slots, j \in Slots :
            LET p == e * BlockSize + i * NumberOfShapeFunctions + j
            IN  /\ ret.rows[p] = ret.elements[e] * NumberOfShapeFunctions + i
                /\ ret.cols[p] = ret.elements[e] * NumberOfShapeFunctions + j

C10_Witness ==
    /\ ret.set
    /\ ArrLen(ret.elements) >= 2
    /\ ret.elements[0] # 0

-----------------------------------------------------------------------------
(* C2 *)

\* the (element, test slot, trial slot) triples that feed entry (r, c)
Feeding(r, c) ==
    {t \in Elements \X Slots \X Slots :
        /\ space["domain"].support[t[1]]
        /\ space["dual_to_range"].support[t[1]]
        /\ space["dual_to_range"].local2global[t[1]][t[2]] = r
        /\ space["domain"].local2global[t[1]][t[3]] = c}

Scaled(t) ==
    RawKernel(kernel, t[1], t[2], t[3])
        * space["dual_to_range"].local_multipliers[t[1]][t[2]]
        * space["domain"].local_multipliers[t[1]][t[3]]

RECURSIVE SumScaled(_)
SumScaled(S) ==
    IF S = {} THEN 0
    ELSE LET t == CHOOSE x \in S : TRUE IN Scaled(t) + SumScaled(S \ {t})

\* C2: the assembled matrix has the shape (test DOF count, trial DOF count)
\* and its entry (r, c) is the sum, over the elements in both supports and
\* the slot pairs (i, j) of the element mapped to (r, c), of the raw kernel
\* value times the test and the trial multiplier.
C2_MatrixIsScatteredSum ==
    matrix.set =>
        /\ matrix.nrows = space["dual_to_range"].global_dof_count
        /\ matrix.ncols = space["domain"].global_dof_count
        /\ \A r \in 0..(matrix.nrows - 1), c \in 0..(matrix.ncols - 1) :
                matrix.m[r][c] = SumScaled(Feeding(r, c))

C2_Witness ==
    /\ matrix.set
    /\ \E r \in 0..(matrix.nrows - 1), c \in 0..(matrix.ncols - 1) :
        /\ Cardinality({t \in Feeding(r, c) : Scaled(t) # 0}) >= 2
        /\ matrix.m[r][c] # 0
    /\ \E e \in Elements :
        space["domain"].support[e] /\ ~space["dual_to_range"].support[e]
    /\ ~space["domain"].support[0]

====
